---- MODULE Spec2Model ----
(***************************************************************************)
(* Model of securitycam.py: one CameraProcess per configured camera, each  *)
(* running record() in a daemon thread, and the MultiCameraSystem that     *)
(* loads the configuration, starts the threads and handles SIGINT/SIGTERM. *)
(*                                                                         *)
(* Sizes are counted in blocks, BlocksPerGb blocks to the GiB of           *)
(* max_storage_gb * 1024 * 1024 * 1024.  Time is the wall clock in         *)
(* seconds; it advances a minute at a time, and the capture device         *)
(* delivers at most one frame per advance.  A file's st_mtime is the clock *)
(* at its last write, so two files written within one advance tie.         *)
(***************************************************************************)
EXTENDS Integers, Sequences, FiniteSets, TLC

\* ------------------------------------------------------------------ bounds
\* Minutes a run of the whole system lasts; a run of one camera lasts
\* StoreTicks or RotateTicks minutes.
MaxTicks == 1
StoreTicks == MaxTicks + 1
RotateTicks == MaxTicks + 3

\* The ids of the cameras a configuration file may list, in its order.
Cams == {1, 2}
\* The max_storage_gb and chunk_duration_mins values it may give them.
StorageGbs == {0, 1}
ChunkMins == {1, 2}
\* Name, st_mtime and st_size (in blocks) of the files an earlier run left.
OldNames == {-1, -2}
OldMtimes == {-1, -2}
OldSizes == {1, 2}
\* st_size of a file just created: the container header, if the writer has
\* flushed it.
HeaderSizes == {0, 1}

\* ------------------------------------------------------- program constants
\* chunk_duration_mins * 60
SecondsPerMinute == 60
\* max_storage_gb * 1024 * 1024 * 1024, counted in blocks of half a GiB
BlocksPerGb == 2
\* None, for current_file and chunk_start_time
NoFile == -1000
NoTime == -2000

VARIABLES
    config,            \* content of the configuration file (input)
    mainPc,            \* position of the main thread
    exitStatus,        \* status the process exited with, -1 while alive
    sysRunning,        \* MultiCameraSystem.running
    cameras,           \* MultiCameraSystem.cameras: c -> CameraProcess fields set by __init__
    started,           \* number of record() threads started by run()
    now,               \* time.time() / datetime.now()
    frameReady,        \* c -> the device of camera c holds an unread frame
    pc,                \* c -> position of camera c's record() thread
    running,           \* c -> CameraProcess.running
    cap,               \* c -> CameraProcess.cap: "none", "unopened", "open", "released"
    writer,            \* c -> CameraProcess.writer: "none", "open", "released"
    current_file,      \* c -> CameraProcess.current_file (a file name) or NoFile
    chunk_start_time,  \* c -> CameraProcess.chunk_start_time or NoTime
    dir,               \* c -> the *.mp4 files of storage_dir/camera_id
    error,             \* c -> the exception record() logged at line 115, "none" if none
    capRel,            \* c -> number of cap.release() calls on an opened handle
    writerRel,         \* c -> number of release() calls on the current writer object
    chunks,            \* c -> number of start_new_chunk() calls of this run
    recordStart,       \* c -> clock at the first start_new_chunk() or NoTime
    openWriters,       \* c -> the files whose VideoWriter object is not yet released
    lastPass           \* c -> what the latest cleanup_old_files() listed and did

vars == <<config, mainPc, exitStatus, sysRunning, cameras, started, now, frameReady,
          pc, running, cap, writer, current_file, chunk_start_time, dir, error,
          capRel, writerRel, chunks, recordStart, openWriters, lastPass>>

mainVars == <<config, mainPc, exitStatus, sysRunning, cameras, started>>

\* ---------------------------------------------------------- ChunkFile store

\* A file of a camera directory: name (the timestamp it was created at),
\* st_mtime and st_size.
FileRec(n, t, s) == [name |-> n, mtime |-> t, size |-> s]

Names(fs) == {f.name : f \in fs}

RECURSIVE SumSizes(_)
SumSizes(fs) ==
    IF fs = {} THEN 0
    ELSE LET f == CHOOSE x \in fs : TRUE IN f.size + SumSizes(fs \ {f})

\* max_storage_gb * 1024 * 1024 * 1024, in blocks
max_storage_bytes(max_storage_gb) == max_storage_gb * BlocksPerGb

\* datetime.now().strftime('%Y-%m-%d_%H-%M-%S'): the clock at second
\* resolution; the clock of the model holds whole seconds.
Timestamp(t) == t

\* The files as glob() yields them, in any order (the sort left out).
ListedUnsorted(fs) ==
    {s \in [1..Cardinality(fs) -> fs] :
        \A i, j \in 1..Cardinality(fs) : i < j => s[i] # s[j]}

\* sorted(glob("*.mp4"), key=st_mtime): every listing order of the files that
\* ascends in st_mtime; files with equal st_mtime keep the order glob()
\* yielded them in, which the file system chooses.
SortedByMtime(fs) ==
    {s \in [1..Cardinality(fs) -> fs] :
        \A i, j \in 1..Cardinality(fs) :
            i < j => (s[i] # s[j] /\ s[i].mtime <= s[j].mtime)}

\* The loop run as an if: at most one candidate goes.
EvictLoopOnce(video_files, total_size, quota, failAt, removed) ==
    IF total_size > quota /\ video_files # <<>>
    THEN IF failAt = 1
         THEN [removed |-> <<>>, failed |-> Head(video_files).name]
         ELSE [removed |-> <<Head(video_files)>>, failed |-> NoFile]
    ELSE [removed |-> <<>>, failed |-> NoFile]

\* The loop without its test of the total: it goes on while files are left.
RECURSIVE EvictWhileFiles(_, _, _, _, _)
EvictWhileFiles(video_files, total_size, quota, failAt, removed) ==
    IF video_files # <<>>
    THEN LET oldest_file == Head(video_files) IN
         IF failAt = Len(removed) + 1
         THEN [removed |-> removed, failed |-> oldest_file.name]
         ELSE EvictWhileFiles(Tail(video_files), total_size - oldest_file.size,
                              quota, failAt, Append(removed, oldest_file))
    ELSE [removed |-> removed, failed |-> NoFile]

\* The while loop of cleanup_old_files.  failAt = k > 0: the k-th candidate
\* popped raises (oldest_file.stat() if the file is already gone, unlink() if
\* it may not be deleted), which leaves the loop and the function; failAt = 0:
\* nothing raises.
RECURSIVE EvictLoop(_, _, _, _, _)
EvictLoop(video_files, total_size, quota, failAt, removed) ==
    IF total_size > quota /\ video_files # <<>>
    THEN LET oldest_file == Head(video_files) IN
         IF failAt = Len(removed) + 1
         THEN [removed |-> removed, failed |-> oldest_file.name]
         ELSE EvictLoop(Tail(video_files), total_size - oldest_file.size,
                        quota, failAt, Append(removed, oldest_file))
    ELSE [removed |-> removed, failed |-> NoFile]

SeqRange(s) == {s[i] : i \in 1..Len(s)}

\* cleanup_old_files on directory fs listed in order video_files: the record
\* of the pass and the directory it leaves.  kind = "gone": the failing
\* candidate had vanished (stat raises); kind = "perm": unlink raises and the
\* file stays; kind = "list": the stat of file failAt raises while the files
\* are listed (lines 61-66), before the loop, and the file stays.
cleanup_old_files(fs, video_files, quota, failAt, kind, active) ==
    LET r == IF kind = "list"
             THEN [removed |-> <<>>, failed |-> video_files[failAt].name]
             ELSE EvictLoop(video_files, SumSizes(fs), quota, failAt, <<>>)
        gone == IF r.failed # NoFile /\ kind = "gone"
                THEN {f \in fs : f.name = r.failed} ELSE {}
    IN [ran |-> TRUE, listed |-> fs, quota |-> quota, removed |-> r.removed,
        failed |-> r.failed, active |-> active,
        left |-> (fs \ SeqRange(r.removed)) \ gone]

NoPass == [ran |-> FALSE, listed |-> {}, quota |-> 0, removed |-> <<>>,
           failed |-> NoFile, active |-> NoFile, left |-> {}]

\* ------------------------------------------------------------ configuration

\* The camera entries a configuration file may hold.
CamEntries(gbs, mins) == [max_storage_gb : gbs, chunk_duration_mins : mins]

\* A missing or unparseable configuration file.
BadConfig == [valid |-> FALSE, cams |-> <<>>]

\* The configuration files that list n cameras, n in counts.
Configs(entries, counts) ==
    {[valid |-> TRUE, cams |-> cs] : cs \in UNION {[1..n -> entries] : n \in counts}}

NumConfigured == Len(config.cams)

\* CameraProcess.__init__: the fields that never change afterwards.
CameraProcess(entry) ==
    [present |-> TRUE,
     max_storage_bytes |-> max_storage_bytes(entry.max_storage_gb),
     chunk_duration_mins |-> entry.chunk_duration_mins]

NoCamera == [present |-> FALSE, max_storage_bytes |-> 0, chunk_duration_mins |-> 0]

\* Files left in a camera directory by earlier runs.
OldFiles == {FileRec(n, t, s) : n \in OldNames, t \in OldMtimes, s \in OldSizes}

OldDirs == {fs \in SUBSET OldFiles : \A f, g \in fs : f.name = g.name => f = g}

EmptyDirs == [c \in Cams |-> {}]

\* -------------------------------------------------------------- initial state

InitWith(cfgs, dirs) ==
    /\ config \in cfgs
    /\ mainPc = "load"
    /\ exitStatus = -1
    /\ sysRunning = FALSE
    /\ cameras = [c \in Cams |-> NoCamera]
    /\ started = 0
    /\ now = 0
    /\ frameReady = [c \in Cams |-> FALSE]
    /\ pc = [c \in Cams |-> "idle"]
    /\ running = [c \in Cams |-> FALSE]
    /\ cap = [c \in Cams |-> "none"]
    /\ writer = [c \in Cams |-> "none"]
    /\ current_file = [c \in Cams |-> NoFile]
    /\ chunk_start_time = [c \in Cams |-> NoTime]
    /\ dir \in dirs
    /\ error = [c \in Cams |-> "none"]
    /\ capRel = [c \in Cams |-> 0]
    /\ writerRel = [c \in Cams |-> 0]
    /\ chunks = [c \in Cams |-> 0]
    /\ recordStart = [c \in Cams |-> NoTime]
    /\ openWriters = [c \in Cams |-> {}]
    /\ lastPass = [c \in Cams |-> NoPass]

\* A first run: any number of cameras, each with a GiB of storage and chunks
\* a minute long; empty camera directories.
Init ==
    InitWith({BadConfig} \cup Configs(CamEntries({1}, {1}), 0..Cardinality(Cams)),
             {EmptyDirs})

\* A later run of one camera over the files earlier runs left behind.
StoreInit ==
    InitWith(Configs(CamEntries(StorageGbs, {1}), {1}),
             {[EmptyDirs EXCEPT ![1] = d] : d \in OldDirs})

\* A first run of one camera, chunks of any configured length.
RotateInit ==
    InitWith(Configs(CamEntries({1}, ChunkMins), {1}), {EmptyDirs})

\* -------------------------------------------------------- Recording Worker

Alive == mainPc # "exited"

\* An exception that leaves record() uncaught and takes every camera down.
RaiseStopsAll(c, e) ==
    /\ pc' = [pc EXCEPT ![c] = "finally"]
    /\ error' = [error EXCEPT ![c] = e]
    /\ running' = [d \in Cams |-> FALSE]

\* An exception raised inside the try block of record(): caught at line 114,
\* logged at line 115, and control passes to the finally block.  It reaches
\* no other thread.
Raise(c, e) ==
    /\ pc' = [pc EXCEPT ![c] = "finally"]
    /\ error' = [error EXCEPT ![c] = e]
    /\ running' = running

\* The directory after start_new_chunk at clock t: the previous writer is
\* released, which writes the end of the previous chunk's file, and the new
\* writer creates (or truncates) the file named by the timestamp, h blocks
\* of header long.
NewChunkDir(fs, cur, t, h) ==
    LET closed == {IF f.name = cur THEN FileRec(f.name, t, f.size) ELSE f : f \in fs}
    IN {f \in closed : f.name # Timestamp(t)} \cup {FileRec(Timestamp(t), t, h)}

\* start_new_chunk() without the release of lines 79-80.
start_new_chunk_keeps_open(c) ==
    /\ openWriters' = [openWriters EXCEPT ![c] = @ \cup {Timestamp(now)}]
    /\ writer' = [writer EXCEPT ![c] = "open"]
    /\ writerRel' = [writerRel EXCEPT ![c] = 0]
    /\ current_file' = [current_file EXCEPT ![c] = Timestamp(now)]
    /\ chunk_start_time' = [chunk_start_time EXCEPT ![c] = now]
    /\ chunks' = [chunks EXCEPT ![c] = @ + 1]
    /\ recordStart' = [recordStart EXCEPT ![c] = IF @ = NoTime THEN now ELSE @]

\* start_new_chunk(), but for the directory, which the caller states: the
\* previous writer, if any, is released (lines 79-80) and the next one is
\* created (line 90).
start_new_chunk(c) ==
    /\ openWriters' = [openWriters EXCEPT ![c] =
          (IF writer[c] # "none" THEN @ \ {current_file[c]} ELSE @)
             \cup {Timestamp(now)}]
    /\ writer' = [writer EXCEPT ![c] = "open"]
    /\ writerRel' = [writerRel EXCEPT ![c] = 0]
    /\ current_file' = [current_file EXCEPT ![c] = Timestamp(now)]
    /\ chunk_start_time' = [chunk_start_time EXCEPT ![c] = now]
    /\ chunks' = [chunks EXCEPT ![c] = @ + 1]
    /\ recordStart' = [recordStart EXCEPT ![c] = IF @ = NoTime THEN now ELSE @]

\* The open without the isOpened() test: a handle that did not open is used.
WOpenUntested(c) ==
    /\ Alive /\ pc[c] = "open"
    /\ \E isOpened \in BOOLEAN :
         /\ cap' = [cap EXCEPT ![c] = IF isOpened THEN "open" ELSE "unopened"]
         /\ pc' = [pc EXCEPT ![c] = "first_chunk"]
         /\ UNCHANGED <<error, running>>
    /\ UNCHANGED <<mainVars, now, frameReady, writer, current_file, chunk_start_time,
                   dir, capRel, writerRel, chunks, recordStart, openWriters, lastPass>>

\* record(), lines 96-98: open the capture handle.
WOpen(c) ==
    /\ Alive /\ pc[c] = "open"
    /\ \E isOpened \in BOOLEAN :
         IF isOpened
         THEN /\ cap' = [cap EXCEPT ![c] = "open"]
              /\ pc' = [pc EXCEPT ![c] = "first_chunk"]
              /\ UNCHANGED <<error, running>>
         ELSE /\ cap' = [cap EXCEPT ![c] = "unopened"]
              /\ Raise(c, "open")
    /\ UNCHANGED <<mainVars, now, frameReady, writer, current_file, chunk_start_time,
                   dir, capRel, writerRel, chunks, recordStart, openWriters, lastPass>>

\* An eviction pass of camera c over directory fs, with the new chunk active.
CleanupPass(c, fs) ==
    \E video_files \in SortedByMtime(fs) :
    \E failAt \in 0..Len(video_files), kind \in {"perm", "gone", "list"} :
        /\ failAt = 0 => kind = "perm"
        /\ lastPass' = [lastPass EXCEPT ![c] =
              cleanup_old_files(fs, video_files, cameras[c].max_storage_bytes,
                                failAt, kind, Timestamp(now))]
        /\ dir' = [dir EXCEPT ![c] = lastPass'[c].left]

\* The first chunk followed by an eviction pass.
WFirstChunkThenCleanup(c) ==
    /\ Alive /\ pc[c] = "first_chunk"
    /\ start_new_chunk(c)
    /\ \E h \in HeaderSizes : CleanupPass(c, NewChunkDir(dir[c], current_file[c], now, h))
    /\ pc' = [pc EXCEPT ![c] = "loop"]
    /\ UNCHANGED <<mainVars, now, frameReady, running, cap, error, capRel>>

\* record(), line 100: the first chunk.
WFirstChunk(c) ==
    /\ Alive /\ pc[c] = "first_chunk"
    /\ start_new_chunk(c)
    /\ \E h \in HeaderSizes :
         dir' = [dir EXCEPT ![c] = NewChunkDir(@, current_file[c], now, h)]
    /\ pc' = [pc EXCEPT ![c] = "loop"]
    /\ UNCHANGED <<mainVars, now, frameReady, running, cap, error, capRel, lastPass>>

\* record(), line 102: the loop reads self.running.
WLoop(c) ==
    /\ Alive /\ pc[c] = "loop"
    /\ pc' = [pc EXCEPT ![c] = IF running[c] THEN "read" ELSE "finally"]
    /\ UNCHANGED <<mainVars, now, frameReady, running, cap, writer, current_file,
                   chunk_start_time, dir, error, capRel, writerRel, chunks,
                   recordStart, openWriters, lastPass>>

\* A failed read logged and the loop gone round again.
ReadFailedContinues(c) ==
    /\ pc' = [pc EXCEPT ![c] = "loop"]
    /\ error' = [error EXCEPT ![c] = "read"]
    /\ running' = running

\* Lines 104-105: ret is false, "Failed to read frame" is raised.
ReadFailed(c) == Raise(c, "read")

\* record(), lines 103-105: the blocking read returns a frame, or fails.
WRead(c) ==
    /\ Alive /\ pc[c] = "read"
    /\ \/ /\ frameReady[c]
          /\ frameReady' = [frameReady EXCEPT ![c] = FALSE]
          /\ pc' = [pc EXCEPT ![c] = "write"]
          /\ UNCHANGED <<error, running>>
       \/ /\ ReadFailed(c)
          /\ UNCHANGED frameReady
    /\ UNCHANGED <<mainVars, now, cap, writer, current_file, chunk_start_time, dir,
                   capRel, writerRel, chunks, recordStart, openWriters, lastPass>>

\* The directory after a frame is written at clock t to the file named cur
\* (a file unlinked while open takes the frame and stays out of the
\* directory).
WriteFrame(fs, cur, t) ==
    {IF f.name = cur THEN FileRec(f.name, t, f.size + 1) ELSE f : f \in fs}

\* record(), line 107: write the frame; the write may raise.
WWrite(c) ==
    /\ Alive /\ pc[c] = "write"
    /\ \/ /\ dir' = [dir EXCEPT ![c] = WriteFrame(@, current_file[c], now)]
          /\ pc' = [pc EXCEPT ![c] = "rotate"]
          /\ UNCHANGED <<error, running>>
       \/ /\ Raise(c, "write")
          /\ UNCHANGED dir
    /\ UNCHANGED <<mainVars, now, frameReady, cap, writer, current_file,
                   chunk_start_time, capRel, writerRel, chunks, recordStart,
                   openWriters, lastPass>>

\* The rotation test with >= for >.
RotationDueAtEqual(c) ==
    now - chunk_start_time[c] >= cameras[c].chunk_duration_mins * SecondsPerMinute

\* Line 110: is it time for a new chunk?
RotationDue(c) ==
    now - chunk_start_time[c] > cameras[c].chunk_duration_mins * SecondsPerMinute

\* A rotation whose eviction pass lets its error out into record().
WRotateRaises(c) ==
    /\ Alive /\ pc[c] = "rotate"
    /\ IF RotationDue(c)
       THEN /\ start_new_chunk(c)
            /\ \E h \in HeaderSizes :
                 CleanupPass(c, NewChunkDir(dir[c], current_file[c], now, h))
            /\ IF lastPass'[c].failed # NoFile
               THEN Raise(c, "cleanup")
               ELSE /\ pc' = [pc EXCEPT ![c] = "loop"]
                    /\ UNCHANGED <<error, running>>
       ELSE /\ UNCHANGED <<writer, writerRel, current_file, chunk_start_time, chunks,
                           recordStart, openWriters, dir, lastPass>>
            /\ pc' = [pc EXCEPT ![c] = "loop"]
            /\ UNCHANGED <<error, running>>
    /\ UNCHANGED <<mainVars, now, frameReady, cap, capRel>>

\* record(), lines 110-112: on a due rotation, start_new_chunk() and then
\* cleanup_old_files(), whose own try/except keeps its errors to itself.
WRotate(c) ==
    /\ Alive /\ pc[c] = "rotate"
    /\ IF RotationDue(c)
       THEN /\ start_new_chunk(c)
            /\ \E h \in HeaderSizes :
                 LET fs == NewChunkDir(dir[c], current_file[c], now, h) IN
                 \E video_files \in SortedByMtime(fs) :
                 \E failAt \in 0..Len(video_files), kind \in {"perm", "gone", "list"} :
                    /\ failAt = 0 => kind = "perm"
                    /\ lastPass' = [lastPass EXCEPT ![c] =
                          cleanup_old_files(fs, video_files, cameras[c].max_storage_bytes,
                                            failAt, kind, Timestamp(now))]
                    /\ dir' = [dir EXCEPT ![c] = lastPass'[c].left]
       ELSE UNCHANGED <<writer, writerRel, current_file, chunk_start_time, chunks,
                        recordStart, openWriters, dir, lastPass>>
    /\ pc' = [pc EXCEPT ![c] = "loop"]
    /\ UNCHANGED <<mainVars, now, frameReady, running, cap, error, capRel>>

\* record(), lines 116-120: the finally block.
WFinally(c) ==
    /\ Alive /\ pc[c] = "finally"
    /\ IF writer[c] # "none"
       THEN /\ writer' = [writer EXCEPT ![c] = "released"]
            /\ writerRel' = [writerRel EXCEPT ![c] = @ + 1]
            /\ openWriters' = [openWriters EXCEPT ![c] = @ \ {current_file[c]}]
            /\ dir' = [dir EXCEPT ![c] =
                  {IF f.name = current_file[c] THEN FileRec(f.name, now, f.size) ELSE f
                     : f \in @}]
       ELSE UNCHANGED <<writer, writerRel, openWriters, dir>>
    /\ IF cap[c] = "open"
       THEN /\ cap' = [cap EXCEPT ![c] = "released"]
            /\ capRel' = [capRel EXCEPT ![c] = @ + 1]
       ELSE UNCHANGED <<cap, capRel>>
    /\ pc' = [pc EXCEPT ![c] = "stopped"]
    /\ UNCHANGED <<mainVars, now, frameReady, running, current_file, chunk_start_time,
                   error, chunks, recordStart, lastPass>>

\* One step of camera c's record() thread.
record(c) ==
    \/ WOpen(c)
    \/ WFirstChunk(c)
    \/ WLoop(c)
    \/ WRead(c)
    \/ WWrite(c)
    \/ WRotate(c)
    \/ WFinally(c)

\* -------------------------------------------------------- Camera Supervisor

workerVars == <<frameReady, pc, cap, writer, current_file, chunk_start_time, dir,
                error, capRel, writerRel, chunks, recordStart, openWriters, lastPass>>

\* MultiCameraSystem.__init__ / load_config: build one CameraProcess per
\* entry, or log and sys.exit(1) when the file cannot be loaded.
load_config ==
    /\ mainPc = "load"
    /\ IF config.valid
       THEN /\ cameras' = [c \in Cams |->
                  IF c <= NumConfigured THEN CameraProcess(config.cams[c]) ELSE NoCamera]
            /\ mainPc' = "run"
            /\ UNCHANGED exitStatus
       ELSE /\ mainPc' = "exited"
            /\ exitStatus' = 1
            /\ UNCHANGED cameras
    /\ UNCHANGED <<config, sysRunning, started, now, running, workerVars>>

\* run(), lines 177-181: install the signal handlers, set self.running.
run_begin ==
    /\ mainPc = "run"
    /\ sysRunning' = TRUE
    /\ mainPc' = IF NumConfigured = 0 THEN "wait" ELSE "starting"
    /\ UNCHANGED <<config, exitStatus, cameras, started, now, running, workerVars>>

\* run(), lines 184-189: one iteration of the loop that starts the threads.
run_start_thread ==
    /\ mainPc = "starting"
    /\ LET c == started + 1 IN
         /\ running' = [running EXCEPT ![c] = TRUE]
         /\ pc' = [pc EXCEPT ![c] = "open"]
         /\ started' = c
         /\ mainPc' = IF c = NumConfigured THEN "wait" ELSE "starting"
    /\ UNCHANGED <<config, exitStatus, sysRunning, cameras, now, frameReady, cap, writer,
                   current_file, chunk_start_time, dir, error, capRel, writerRel,
                   chunks, recordStart, openWriters, lastPass>>

\* A run() that sleeps only until its threads have ended, and then returns.
run_until_threads_end ==
    /\ mainPc = "wait"
    /\ IF \E c \in 1..started : pc[c] # "stopped"
       THEN UNCHANGED <<mainPc, exitStatus>>
       ELSE /\ mainPc' = "exited"
            /\ exitStatus' = 0
    /\ UNCHANGED <<config, sysRunning, cameras, started, now, running, workerVars>>

\* run(), lines 192-196: sleep while self.running; once it is cleared, join
\* every thread and return, which ends the process with status 0.
run_wait ==
    /\ mainPc = "wait"
    /\ IF sysRunning
       THEN UNCHANGED <<mainPc, exitStatus>>
       ELSE /\ \A c \in 1..started : pc[c] = "stopped"
            /\ mainPc' = "exited"
            /\ exitStatus' = 0
    /\ UNCHANGED <<config, sysRunning, cameras, started, now, running, workerVars>>

\* CameraProcess.stop()
stop(run, c) == [run EXCEPT ![c] = FALSE]

RECURSIVE StopAll(_, _)
StopAll(run, n) == IF n = 0 THEN run ELSE StopAll(stop(run, n), n - 1)

\* signal_handler(): clear self.running, stop() every camera, sys.exit(0).
\* SystemExit unwinds the main thread out of run(); a further signal that
\* arrives while it unwinds runs the handler again.
signal_handler ==
    /\ mainPc \in {"starting", "wait", "exiting"}
    /\ sysRunning' = FALSE
    /\ running' = StopAll(running, NumConfigured)
    /\ mainPc' = "exiting"
    /\ UNCHANGED <<config, exitStatus, cameras, started, now, workerVars>>

\* The interpreter shuts down after SystemExit: it joins no daemon thread,
\* and every record() thread still running is stopped where it stands; the
\* operating system closes the devices.
process_exit ==
    /\ mainPc = "exiting"
    /\ mainPc' = "exited"
    /\ exitStatus' = 0
    /\ pc' = [c \in Cams |-> IF pc[c] \in {"idle", "stopped"} THEN pc[c] ELSE "killed"]
    /\ frameReady' = [c \in Cams |-> FALSE]
    /\ UNCHANGED <<config, sysRunning, cameras, started, now, running, cap,
                   writer, current_file, chunk_start_time, dir, error, capRel,
                   writerRel, chunks, recordStart, openWriters, lastPass>>

\* A minute passes while run() sleeps, and every capture device has its next
\* frame.
Tick(ticks) ==
    /\ mainPc = "wait"
    /\ now < ticks * SecondsPerMinute
    /\ now' = now + SecondsPerMinute
    /\ frameReady' = [c \in Cams |-> TRUE]
    /\ UNCHANGED <<mainVars, running, pc, cap, writer, current_file, chunk_start_time,
                   dir, error, capRel, writerRel, chunks, recordStart, openWriters,
                   lastPass>>

\* The main thread from start-up to the sleep loop, and the record() threads.
Run ==
    \/ load_config
    \/ run_begin
    \/ run_start_thread
    \/ run_wait
    \/ \E c \in Cams : record(c)

\* SIGINT or SIGTERM arrives, and the process ends.
Shutdown ==
    \/ signal_handler
    \/ process_exit

Next == Run \/ Shutdown \/ Tick(MaxTicks)

\* Runs that no signal ends.
StoreNext == Run \/ Tick(StoreTicks)

RotateNext == Run \/ Tick(RotateTicks)

Spec == Init /\ [][Next]_vars

StoreSpec == StoreInit /\ [][StoreNext]_vars

RotateSpec == RotateInit /\ [][RotateNext]_vars

\* ------------------------------------------------------------------ claims

\* The files of fs other than the active chunk.
Finalized(fs, active) == {f \in fs : f.name # active}

\* The total the k-th deletion of a pass found: the sizes of every listed
\* file but the k - 1 removed before it.
TotalBefore(p, k) == SumSizes(p.listed \ {p.removed[j] : j \in 1..(k - 1)})

\* C1: an eviction pass never deletes the chunk file that is active (the file
\* the open writer was bound to when the pass ran), whatever the quota and the
\* sizes of the files.
C1_ActiveNeverEvicted ==
    \A c \in Cams :
        lastPass[c].ran => lastPass[c].active \notin Names(SeqRange(lastPass[c].removed))

C3_OldestFirst ==
    \A c \in Cams :
        lastPass[c].ran =>
            \A i \in 1..Len(lastPass[c].removed) :
                /\ \A g \in lastPass[c].listed :
                      g.mtime < lastPass[c].removed[i].mtime =>
                          \E j \in 1..(i - 1) : lastPass[c].removed[j] = g
                /\ TotalBefore(lastPass[c], i) > lastPass[c].quota

\* A pass that deleted two files of different age and kept a third.
C3_Witness ==
    \E c \in Cams :
        /\ lastPass[c].ran
        /\ Len(lastPass[c].removed) >= 2
        /\ lastPass[c].removed[1].mtime < lastPass[c].removed[2].mtime
        /\ lastPass[c].left # {}

\* C4: a deletion that fails is skipped and the pass goes on with the
\* next-oldest candidate: when a pass in which a deletion failed returns, the
\* total is within the quota or no finalized file but the one that could not
\* be deleted remains.
C4_FailedDeletionSkipped ==
    \A c \in Cams :
        (lastPass[c].ran /\ lastPass[c].failed # NoFile) =>
            \/ SumSizes(lastPass[c].left) <= lastPass[c].quota
            \/ Finalized(lastPass[c].left, lastPass[c].active)
                  \subseteq {f \in lastPass[c].left : f.name = lastPass[c].failed}

\* The positions of record() inside the while loop.
InLoop == {"loop", "read", "write", "rotate"}

\* C5: a worker whose capture handle was acquired has, once it is over
\* (stopped, failed or shut down with the process), released the handle
\* exactly once and closed its active chunk writer exactly once.
C5_ReleasedExactlyOnce ==
    \A c \in Cams :
        (pc[c] \in {"stopped", "killed"} /\ cap[c] \in {"open", "released"}) =>
            /\ capRel[c] = 1
            /\ writer[c] # "none" => writerRel[c] = 1

\* C6: the process exits with status 0 only after every worker thread has
\* finished its cleanup: none is still in its loop or its finally block.
C6_ExitAfterWorkersDone ==
    (mainPc = "exited" /\ exitStatus = 0) =>
        \A c \in Cams : pc[c] \in {"idle", "stopped"}

\* What belongs to camera c alone.
Local(c) ==
    <<pc[c], running[c], cap[c], writer[c], current_file[c], chunk_start_time[c],
      dir[c], error[c], capRel[c], writerRel[c], chunks[c], recordStart[c],
      openWriters[c], lastPass[c], frameReady[c]>>

\* C7: no step of one worker, its failure to open or a failure of its loop
\* included, changes anything of another worker, and a worker of a live
\* process that is not over always has a step of its own to take, whatever
\* the others have come to.
C7_Isolation ==
    /\ [][\A c \in Cams : record(c) => \A d \in Cams \ {c} : Local(d)' = Local(d)]_vars
    /\ [](\A d \in Cams :
            (Alive /\ pc[d] \notin {"idle", "stopped", "killed"}) => ENABLED record(d))

\* One worker failed to open and is over; another is in its loop with its
\* first chunk file on disk.
C7_Witness ==
    \E c, d \in Cams :
        /\ c # d
        /\ error[c] = "open" /\ pc[c] = "stopped"
        /\ pc[d] \in InLoop /\ chunks[d] >= 1
        /\ current_file[d] \in Names(dir[d])

\* ceil(a / b)
Ceil(a, b) == (a + b - 1) \div b

\* The time camera c has recorded for, and its chunk duration in seconds.
Elapsed(c) == now - recordStart[c]

ChunkSeconds(c) == cameras[c].chunk_duration_mins * SecondsPerMinute

\* The worker has dealt with every frame delivered so far, and each of its
\* rotations came with the first frame, a minute apart, after the chunk
\* turned D old.
Prompt(c) ==
    /\ pc[c] = "read" /\ ~frameReady[c]
    /\ chunk_start_time[c] - recordStart[c]
          = (chunks[c] - 1) * (ChunkSeconds(c) + SecondsPerMinute)

\* C8 as claimed: a worker that has recorded without failure for T > 0,
\* taking every frame as it came, has begun exactly ceil(T / D) chunks.
C8_ExactlyCeilChunks ==
    \A c \in Cams :
        (Prompt(c) /\ Elapsed(c) > 0) => chunks[c] = Ceil(Elapsed(c), ChunkSeconds(c))

\* C8 as amended: a worker recording without failure for T has begun at
\* least one chunk and at most max(1, ceil(T / D)).
C8_AtMostCeilChunks ==
    \A c \in Cams :
        pc[c] \in InLoop =>
            /\ chunks[c] >= 1
            /\ chunks[c] <= IF Elapsed(c) = 0 THEN 1 ELSE Ceil(Elapsed(c), ChunkSeconds(c))

\* A worker that has rotated twice.
C8_Witness ==
    \E c \in Cams : pc[c] \in InLoop /\ chunks[c] = 3

\* C9: after a write of a frame has failed, a worker whose running flag is
\* still set in a live process is still in its loop.
C9_WriteFailureKeepsRecording ==
    \A c \in Cams :
        (error[c] = "write" /\ running[c] /\ Alive) => pc[c] \in InLoop

\* Name and size of every file: what a written frame, a rotation or an
\* eviction changes.
Contents(fs) == {<<f.name, f.size>> : f \in fs}

\* C10: once a read has failed the worker is out of its loop for good: it is
\* in its finally block or over, and from the failed read on it writes no
\* frame, begins no chunk and runs no eviction pass; its one step left is the
\* finally block, which ends it stopped with handle and writer released.
C10_ReadFailureStops ==
    /\ [](\A c \in Cams :
            error[c] = "read" =>
                /\ pc[c] \in {"finally", "stopped", "killed"}
                /\ (pc[c] = "finally" /\ Alive) => ENABLED WFinally(c)
                /\ pc[c] = "stopped" => (capRel[c] = 1 /\ writerRel[c] = 1))
    /\ [][\A c \in Cams :
            error[c] = "read" =>
                /\ Contents(dir[c])' = Contents(dir[c])
                /\ chunks'[c] = chunks[c]
                /\ lastPass'[c] = lastPass[c]
                /\ (pc'[c] # pc[c] /\ Alive') => pc'[c] = "stopped"]_vars

\* A worker that began a chunk, failed a read and stopped.
C10_Witness ==
    \E c \in Cams :
        error[c] = "read" /\ pc[c] = "stopped" /\ chunks[c] >= 1 /\ capRel[c] = 1

\* run() has started the record() thread of camera c.
Started(c) == c <= started

\* C11, the bound: a worker whose running flag is cleared begins no further
\* iteration: from the loop test it goes to its finally block, so it reads
\* and writes at most the frame of the iteration in progress.
C11_NoIterationAfterStop ==
    [][\A c \in Cams :
          (~running[c] /\ pc[c] = "loop") => pc'[c] \in {"loop", "finally", "killed"}]_vars

\* C11: a worker that stop() was called on has, once the process is over,
\* left its loop and reached Stopped with its handle and its writer
\* released.
C11_StoppedWorkerReachesStopped ==
    \A c \in Cams :
        (Started(c) /\ ~running[c] /\ mainPc = "exited") =>
            /\ pc[c] = "stopped"
            /\ cap[c] \in {"unopened", "released"}
            /\ writer[c] \in {"none", "released"}

\* C12: with a configuration that is missing or unparseable, or that defines
\* no camera, no worker thread is started, the supervisor never enters its
\* wait loop, and the process exits with a status other than 0.
C12_FatalStartupAborts ==
    (~config.valid \/ NumConfigured = 0) =>
        /\ started = 0
        /\ mainPc \notin {"starting", "wait"}
        /\ ~sysRunning
        /\ mainPc = "exited" => exitStatus # 0

\* The supervisor is running: threads being started, or in the wait loop.
SupervisorRunning == mainPc \in {"starting", "wait"}

\* C13: after start-up the supervisor stays running, whatever its workers
\* come to: it leaves its running state, and its running flag is cleared,
\* only by the signal handler, and no step of a worker changes anything of
\* the supervisor.
C13_OnlySignalEndsSupervisor ==
    /\ [](SupervisorRunning => (sysRunning /\ exitStatus = -1))
    /\ [][(SupervisorRunning /\ ~SupervisorRunning') => signal_handler]_vars
    /\ [][(sysRunning /\ ~sysRunning') => signal_handler]_vars
    /\ [][(\E c \in Cams : record(c)) => UNCHANGED mainVars]_vars

\* Every worker has stopped on an error, one on its open and one in its
\* loop, and the supervisor is in its wait loop.
C13_Witness ==
    /\ mainPc = "wait" /\ sysRunning
    /\ NumConfigured = Cardinality(Cams)
    /\ \A c \in Cams : pc[c] = "stopped" /\ error[c] # "none"
    /\ \E c, d \in Cams : error[c] = "open" /\ error[d] \in {"read", "write"}

\* C14: stop() on every worker twice leaves the flags as once does, a second
\* run of the handler finds nothing to change, and after it every started
\* worker ends Stopped with its handle and its writer released once.
C14_StopAllTwiceAsOnce ==
    /\ StopAll(StopAll(running, NumConfigured), NumConfigured)
          = StopAll(running, NumConfigured)
    /\ mainPc = "exiting" => (~sysRunning /\ StopAll(running, NumConfigured) = running)
    /\ (mainPc = "exited" /\ exitStatus = 0) =>
          \A c \in Cams :
              Started(c) =>
                  /\ pc[c] = "stopped"
                  /\ capRel[c] <= 1 /\ writerRel[c] <= 1
                  /\ cap[c] # "unopened" => capRel[c] = 1
                  /\ writer[c] # "none" => writerRel[c] = 1

\* C15: a camera has at most one chunk writer open at any time, the one of
\* its current file; a frame read is written to the chunk that was active
\* when it was read, into the file of the one open writer and into no other
\* file.
C15_OneWriterOpen ==
    /\ [](\A c \in Cams :
            /\ Cardinality(openWriters[c]) <= 1
            /\ openWriters[c] = IF writer[c] = "open" THEN {current_file[c]} ELSE {})
    /\ [][\A c \in Cams :
            /\ pc[c] \in {"read", "write"} => current_file'[c] = current_file[c]
            /\ (pc[c] = "write" /\ pc'[c] = "rotate") =>
                  /\ openWriters[c] = {current_file[c]}
                  /\ \A f \in dir[c] :
                        IF f.name = current_file[c]
                        THEN FileRec(f.name, now, f.size + 1) \in dir'[c]
                        ELSE f \in dir'[c]]_vars

\* A worker that has rotated, has written a frame to its second chunk, and
\* has one writer open.
C15_Witness ==
    \E c \in Cams :
        /\ chunks[c] = 2 /\ pc[c] = "rotate"
        /\ openWriters[c] = {current_file[c]}
        /\ \E f \in dir[c] : f.name = current_file[c] /\ f.mtime > chunk_start_time[c]
        /\ \E g \in dir[c] : g.name # current_file[c]

\* C16: an eviction pass runs only with a rotation: the step that runs one is
\* the worker's rotation step, which begins a chunk that is not the first and
\* makes it the active one of the pass; no pass has run before the second
\* chunk, and no file leaves a directory but by a pass.
C16_EvictionOnlyAtRotation ==
    /\ [](\A c \in Cams : lastPass[c].ran => chunks[c] >= 2)
    /\ [][\A c \in Cams :
            /\ lastPass'[c] # lastPass[c] =>
                  /\ pc[c] = "rotate" /\ pc'[c] = "loop"
                  /\ chunks[c] >= 1 /\ chunks'[c] = chunks[c] + 1
                  /\ current_file'[c] # current_file[c]
                  /\ lastPass'[c].active = current_file'[c]
            /\ Names(dir[c]) \ Names(dir'[c]) # {} => lastPass'[c] # lastPass[c]]_vars

\* A pass that ran with the second chunk just begun and deleted a file.
C16_Witness ==
    \E c \in Cams :
        /\ lastPass[c].ran /\ Len(lastPass[c].removed) >= 1
        /\ chunks[c] = 2 /\ pc[c] = "loop" /\ chunk_start_time[c] = now

\* C17: a worker whose capture handle did not open is in its finally block or
\* over: it has begun no chunk, has no writer and no current file, and has
\* run no pass; its directory never changes, its handle is never opened and,
\* once stopped, it stays stopped.
C17_OpenFailureStops ==
    /\ [](\A c \in Cams :
            cap[c] = "unopened" =>
                /\ error[c] = "open"
                /\ pc[c] \in {"finally", "stopped", "killed"}
                /\ chunks[c] = 0 /\ recordStart[c] = NoTime
                /\ writer[c] = "none" /\ current_file[c] = NoFile
                /\ openWriters[c] = {} /\ ~lastPass[c].ran)
    /\ [][\A c \in Cams :
            cap[c] = "unopened" =>
                /\ dir'[c] = dir[c]
                /\ cap'[c] = "unopened"
                /\ pc[c] = "stopped" => pc'[c] = "stopped"]_vars

\* A worker that failed to open and is stopped, a minute later, over the
\* files an earlier run left.
C17_Witness ==
    \E c \in Cams :
        /\ cap[c] = "unopened" /\ pc[c] = "stopped" /\ error[c] = "open"
        /\ dir[c] # {} /\ now > 0

\* C18: a chunk after the first is begun only by the rotation step, only when
\* the clock is strictly more than chunk_duration past chunk_start_time, and
\* the step sets chunk_start_time to the clock; after every written frame the
\* worker rotates if and only if that is so; chunk_start_time changes with no
\* other step.
C18_RotationWhenOverdue ==
    [][\A c \in Cams :
         /\ (chunks[c] >= 1 /\ chunks'[c] # chunks[c]) =>
               /\ pc[c] = "rotate"
               /\ now - chunk_start_time[c] > ChunkSeconds(c)
               /\ chunks'[c] = chunks[c] + 1
               /\ chunk_start_time'[c] = now
         /\ (pc[c] = "rotate" /\ pc'[c] # "rotate") =>
               (now - chunk_start_time[c] > ChunkSeconds(c) <=> chunks'[c] = chunks[c] + 1)
         /\ chunk_start_time'[c] # chunk_start_time[c] => chunks'[c] = chunks[c] + 1]_vars

\* A chunk of two minutes that was kept by the frame written two minutes
\* after it began and rotated out by the frame a minute later.
C18_Witness ==
    \E c \in Cams :
        /\ cameras[c].chunk_duration_mins = 2
        /\ chunks[c] = 2 /\ pc[c] = "loop"
        /\ chunk_start_time[c] = now
        /\ now - recordStart[c] = ChunkSeconds(c) + SecondsPerMinute

\* C19: a pass deletes a file only if the total of the files then remaining,
\* the active one included, exceeded the quota just before; it deletes only
\* files it listed, and a pass that starts within the quota deletes nothing
\* and leaves the directory as it listed it.
C19_NoMoreThanNeeded ==
    \A c \in Cams :
        lastPass[c].ran =>
            /\ SeqRange(lastPass[c].removed) \subseteq lastPass[c].listed
            /\ \A i \in 1..Len(lastPass[c].removed) :
                  TotalBefore(lastPass[c], i) > lastPass[c].quota
            /\ SumSizes(lastPass[c].listed) <= lastPass[c].quota =>
                  /\ lastPass[c].removed = <<>>
                  /\ lastPass[c].left = lastPass[c].listed

\* A pass over three files or more that deleted one and stopped, within the
\* quota, with two left.
C19_Witness ==
    \E c \in Cams :
        /\ lastPass[c].ran /\ lastPass[c].failed = NoFile
        /\ Len(lastPass[c].removed) = 1
        /\ Cardinality(lastPass[c].left) >= 2
        /\ lastPass[c].quota > 0

\* C20: the step in which the listing, a stat or a delete of an eviction pass
\* fails leaves the worker in its loop, with no error logged by record(), its running flag
\* as it was, and its handle and the new writer open; while no read or write
\* fails after it, the worker stays so.
C20_EvictionFailureContained ==
    /\ [][\A c \in Cams :
            (lastPass'[c] # lastPass[c] /\ lastPass'[c].failed # NoFile) =>
                /\ pc'[c] = "loop"
                /\ error'[c] = error[c] /\ running'[c] = running[c]
                /\ cap'[c] = "open" /\ writer'[c] = "open"
                /\ openWriters'[c] = {current_file'[c]}]_vars
    /\ [](\A c \in Cams :
            (lastPass[c].failed # NoFile /\ error[c] = "none") =>
                /\ pc[c] \in InLoop
                /\ cap[c] = "open" /\ writer[c] = "open")

\* A worker whose pass failed and that has since read and written a frame to
\* the chunk the pass began with.
C20_Witness ==
    \E c \in Cams :
        /\ lastPass[c].failed # NoFile /\ error[c] = "none"
        /\ pc[c] = "rotate" /\ current_file[c] = lastPass[c].active
        /\ now > chunk_start_time[c]

====
